---- MODULE Spec2Model ----
(***************************************************************************)
(* A model of the two utilities of siaomingjeng/ansiblemodules:            *)
(*   - azure_rm_loadbalancer_c.py : the load balancer reconciler           *)
(*   - inventory/invact.py        : the dynamic inventory of running VMs   *)
(*                                                                         *)
(* Conventions.                                                            *)
(*   A Python string that is split or stripped is a sequence of            *)
(*   characters; "/" is the separator and every other character is an      *)
(*   atom (a resource name such as "f1" is one atom, so Str("f1") is the   *)
(*   one-character string <<"f1">>).                                       *)
(*   A dict is a function; a missing key is a key outside its DOMAIN.      *)
(*   Python's None is the string None where the other values are strings,  *)
(*   0 where they are numbers (the code only tests such values for         *)
(*   truth, and None, "" and 0 are all false), and NoneObj where they are  *)
(*   objects.                                                              *)
(***************************************************************************)
EXTENDS Integers, Sequences, FiniteSets, TLC

VARIABLES
    \* ---- path decoder (azureid_to_dict run step by step) ----
    segs,        \* the segments the path was written from
    path,        \* the id handed to azureid_to_dict
    pieces,      \* id.strip('/').split('/')
    index,       \* the loop index (0-based, as in the source)
    result,      \* the dict being built
    dpc,         \* "start" | "loop" | "done" | "off"
    \* ---- inventory (invact.py) ----
    public,      \* args.public
    vmlist,      \* virtual_machines.list(rg)
    pos,         \* the number of VMs the for loop has taken
    inventory,   \* self.inventory: [hostvars, azure_running]
    ipc,         \* "traverse" | "print" | "exit" | "off"
    raised,      \* the exception get_inventory ended by: "no" | "IndexError" | "RemoteError"
    printed,     \* the document printed (NoDoc before the print)
    \* ---- reconciler (azure_rm_loadbalancer_c.py) ----
    state_arg,   \* self.state: "present" | "absent" ("off" when the module is not run)
    check_mode,  \* self.check_mode of the current run
    desired,     \* the five lists of the request, as the playbook gives them
    self,        \* the lists as exec_module holds them (defaults set, backend_pools sorted)
    remote,      \* the load balancer the provider stores, NoneObj when there is none
    existed,     \* whether the load balancer existed when the current run started
    rpc,         \* "start" | "validate" | "fetch" | "build" | "submit" | "done" | "failed" | "crashed" | "off"
    changed,     \* the local changed / self.results['changed']
    results_state, \* self.results['state']
    props,       \* LoadBalancer(**load_balancer_props), NoneObj before it is built
    calls,       \* the calls the current run has issued to the provider, in order
    failure,     \* what self.fail reported
    fetched,     \* how load_balancers.get ended: "none" | "found" | "notfound" | "error"
    run,         \* the number of the current run of the module
    basis,       \* the remote at the start of the run: "fresh" | "insync" | "drifted"
    drift,       \* the field another actor changed since the last submission
    cloud_error, \* the call of the current run that raised CloudError last, "" when none did
    \* ---- two playbooks running the reconciler on one load balancer ----
    runs,        \* for each playbook, what its current run of exec_module holds
    store,       \* the load balancer the provider stores, NoneObj when there is none
    writes       \* the playbooks whose create_or_update the provider applied, in order

dvars == <<segs, path, pieces, index, result, dpc>>
ivars == <<public, vmlist, pos, inventory, ipc, raised, printed>>
rvars == <<state_arg, check_mode, desired, self, remote, existed, rpc, changed, results_state,
           props, calls, failure, fetched, run, basis, drift, cloud_error>>
cvars == <<runs, store, writes>>
vars == <<dvars, ivars, rvars, cvars>>

None == "None"
NoneObj == [none |-> TRUE]

(***************************************************************************)
(* Python helpers                                                          *)
(***************************************************************************)
EmptyDict == [k \in {} |-> <<>>]

\* d[k] = v
Put(d, k, v) == [x \in (DOMAIN d) \cup {k} |-> IF x = k THEN v ELSE d[x]]

\* d.update(e)
Update(d, e) == [x \in (DOMAIN d) \cup (DOMAIN e) |-> IF x \in DOMAIN e THEN e[x] ELSE d[x]]

Str(name) == <<name>>

RECURSIVE LStrip(_)
LStrip(s) == IF s # <<>> /\ Head(s) = "/" THEN LStrip(Tail(s)) ELSE s

RECURSIVE RStrip(_)
RStrip(s) == IF s # <<>> /\ s[Len(s)] = "/" THEN RStrip(SubSeq(s, 1, Len(s) - 1)) ELSE s

\* s.strip('/')
Strip(s) == RStrip(LStrip(s))

\* s.split('/'): the empty string splits into one empty piece
RECURSIVE Split(_)
Split(s) ==
    IF \E i \in 1..Len(s) : s[i] = "/"
    THEN LET i == CHOOSE j \in 1..Len(s) : s[j] = "/" /\ \A k \in 1..(j - 1) : s[k] # "/"
         IN  <<SubSeq(s, 1, i - 1)>> \o Split(SubSeq(s, i + 1, Len(s)))
    ELSE <<s>>

(***************************************************************************)
(* azureid_to_dict (azure_rm_loadbalancer_c.py) and _parse_ref_id          *)
(* (invact.py)                                                             *)
(***************************************************************************)
\* while index < len(pieces) - 1
LoopGuard(ps, i) == i < Len(ps) - 1

LoopAdvanceByOne(i) == i + 1

\* index += 2
LoopAdvance(i) == i + 2

\* result[pieces[index]] = pieces[index + 1]  (0-based index)
LoopBody(ps, i, r) == Put(r, ps[i + 1], ps[i + 2])

RECURSIVE AzureidLoop(_, _, _)
AzureidLoop(ps, i, r) ==
    IF LoopGuard(ps, i) THEN AzureidLoop(ps, LoopAdvance(i), LoopBody(ps, i, r)) ELSE r

azureid_to_dict(id) == AzureidLoop(Split(Strip(id)), 0, EmptyDict)

\* for index in range(len(keys)):
\*     if index < len(keys) - 1 and index % 2 == 0: response[keys[index]] = keys[index + 1]
RECURSIVE ParseRefLoop(_, _, _)
ParseRefLoop(keys, i, response) ==
    IF i >= Len(keys) THEN response
    ELSE ParseRefLoop(keys, i + 1,
             IF i < Len(keys) - 1 /\ i % 2 = 0
             THEN Put(response, keys[i + 1], keys[i + 2])
             ELSE response)

_parse_ref_id(reference) == ParseRefLoop(Split(Strip(reference)), 0, EmptyDict)

(***************************************************************************)
(* The decoder run step by step, on every path written from at most        *)
(* MaxSegs segments, with and without a slash before and after.  A segment  *)
(* may be empty, so runs of slashes occur inside and at the ends of paths.  *)
(***************************************************************************)
MaxSegs == 4
SegSet == {<<>>, <<"a">>, <<"a", "b">>}

Padding == {<<>>, <<"/">>}

SegSeqs == UNION {[1..n -> SegSet] : n \in 0..MaxSegs}

RECURSIVE Join(_)
Join(ss) ==
    IF ss = <<>> THEN <<>>
    ELSE IF Len(ss) = 1 THEN ss[1]
    ELSE ss[1] \o <<"/">> \o Join(Tail(ss))

DecoderOff ==
    /\ segs = <<>> /\ path = <<>> /\ pieces = <<>> /\ index = 0
    /\ result = EmptyDict /\ dpc = "off"

InitDecode ==
    /\ segs \in SegSeqs
    /\ \E lead \in Padding, trail \in Padding : path = lead \o Join(segs) \o trail
    /\ pieces = <<>>
    /\ index = 0
    /\ result = EmptyDict
    /\ dpc = "start"

\* pieces = id.strip('/').split('/'); result = {}; index = 0
DecodeSplit ==
    /\ dpc = "start"
    /\ pieces' = Split(Strip(path))
    /\ result' = EmptyDict
    /\ index' = 0
    /\ dpc' = "loop"
    /\ UNCHANGED <<segs, path>>

\* one turn of the while loop
DecodeIter ==
    /\ dpc = "loop"
    /\ LoopGuard(pieces, index)
    /\ result' = LoopBody(pieces, index, result)
    /\ index' = LoopAdvance(index)
    /\ UNCHANGED <<segs, path, pieces, dpc>>

\* return result
DecodeReturn ==
    /\ dpc = "loop"
    /\ ~LoopGuard(pieces, index)
    /\ dpc' = "done"
    /\ UNCHANGED <<segs, path, pieces, index, result>>

(***************************************************************************)
(* Inventory (invact.py)                                                   *)
(***************************************************************************)
MaxVMs == 3

Subscription == "S"

\* The ids the provider gives to network interfaces and public IP addresses.
NicId(name) ==
    <<"/", "subscriptions", "/", Subscription, "/", "resourceGroups", "/", "rg", "/",
      "providers", "/", "Microsoft.Network", "/", "networkInterfaces", "/", name>>

PipId(name) ==
    <<"/", "subscriptions", "/", Subscription, "/", "resourceGroups", "/", "rg", "/",
      "providers", "/", "Microsoft.Network", "/", "publicIPAddresses", "/", name>>

\* network_client.public_ip_addresses.get(rg, name).ip_address: a public IP
\* address that is not allocated has no ip_address.
PublicIpAddressesGet(rg, name) ==
    IF name = Str("pipA") THEN "52.0.0.1"
    ELSE IF name = Str("pipB") THEN "52.0.0.2"
    ELSE None

IpConfig(private, pip) ==
    [private_ip_address |-> private,
     public_ip_address |-> IF pip = None THEN NoneObj ELSE [id |-> PipId(pip)]]

Nic(name, primary, cfgs) == [id |-> NicId(name), primary |-> primary, ip_configurations |-> cfgs]

\* The interface lists of the running VMs of the model.
NicLists ==
    { <<>>,
      <<Nic("n1", TRUE, <<IpConfig("10.0.0.1", None)>>)>>,
      <<Nic("n1", TRUE, <<IpConfig("10.0.0.1", "pipA")>>)>>,
      <<Nic("n1", TRUE, <<IpConfig("10.0.0.2", "pipN")>>)>>,
      <<Nic("n0", FALSE, <<IpConfig("10.0.0.9", "pipB")>>),
        Nic("n1", TRUE, <<IpConfig("10.0.0.2", "pipA")>>)>>,
      <<Nic("n1", TRUE, <<IpConfig("10.0.0.1", "pipA")>>),
        Nic("n2", TRUE, <<IpConfig("10.0.0.2", None)>>)>>,
      <<Nic("n1", TRUE, <<IpConfig("10.0.0.1", None), IpConfig("10.0.0.2", "pipB")>>)>> }

\* instance_view.statuses: the display texts, each a sequence of words
StatusRunning == <<<<"Provisioning", "succeeded">>, <<"VM", "running">>>>
StatusDeallocated == <<<<"Provisioning", "succeeded">>, <<"VM", "deallocated">>>>
StatusShort == <<<<"Provisioning", "failed">>>>

\* A VM that is not running has one interface, with both addresses.
VMSet ==
    [statuses : {StatusRunning}, nics : NicLists]
    \cup [statuses : {StatusDeallocated, StatusShort},
          nics : {<<Nic("n1", TRUE, <<IpConfig("10.0.0.1", "pipA")>>)>>}]

VMLists == UNION {[1..n -> VMSet] : n \in 0..MaxVMs}

\* "running" in running_status
Contains(text, word) == \E i \in 1..Len(text) : text[i] = word

HasKeys(d, ks) == ks \subseteq DOMAIN d

\* for ip_config in network_interface.ip_configurations: ...
RECURSIVE IpConfigLoop(_, _, _)
IpConfigLoop(cfgs, i, hv) ==
    IF i > Len(cfgs) THEN hv
    ELSE LET c == cfgs[i]
             hv1 == [hv EXCEPT !.private_ip = c.private_ip_address]
             hv2 == IF c.public_ip_address # NoneObj
                    THEN LET ref == _parse_ref_id(c.public_ip_address.id)
                         IN  [hv1 EXCEPT !.public_ip =
                                 PublicIpAddressesGet(ref[Str("resourceGroups")],
                                                      ref[Str("publicIPAddresses")])]
                    ELSE hv1
         IN  IpConfigLoop(cfgs, i + 1, hv2)

\* for interface in vm.network_profile.network_interfaces: ...
RECURSIVE InterfaceLoop(_, _, _)
InterfaceLoop(nics, i, hv) ==
    IF i > Len(nics) THEN hv
    ELSE LET network_interface == nics[i]
         IN  InterfaceLoop(nics, i + 1,
                 IF network_interface.primary
                 THEN IpConfigLoop(network_interface.ip_configurations, 1, hv)
                 ELSE hv)

\* whether the lookups of the interface loop raise KeyError
InterfaceKeyError(nics) ==
    \E i \in 1..Len(nics) :
        ~HasKeys(_parse_ref_id(nics[i].id), {Str("resourceGroups"), Str("networkInterfaces")})

HostVars(name, vm) ==
    InterfaceLoop(vm.nics, 1, [name |-> name, public_ip |-> None, private_ip |-> None])

\* the key _add_host files a host under
HostName(pub, hv) == IF pub THEN hv.public_ip ELSE hv.private_ip

_add_host(inv, pub, hv) ==
    [hostvars |-> Put(inv.hostvars, HostName(pub, hv), hv),
     azure_running |-> Append(inv.azure_running, HostName(pub, hv))]

NoDoc == [none |-> TRUE]

InventoryOff ==
    /\ public = FALSE /\ vmlist = <<>> /\ pos = 0 /\ ipc = "off" /\ raised = "no"
    /\ printed = NoDoc
    /\ inventory = [hostvars |-> EmptyDict, azure_running |-> <<>>]

\* Inventory.__init__ up to the call of get_inventory
InitInventory ==
    /\ public \in BOOLEAN
    /\ vmlist \in VMLists
    /\ pos = 0
    /\ inventory = [hostvars |-> EmptyDict, azure_running |-> <<>>]
    /\ ipc = "traverse"
    /\ raised = "no"
    /\ printed = NoDoc

\* One turn of "for vm in vmlist" for a VM that has a second status entry.
VisitVM ==
    /\ ipc = "traverse"
    /\ pos < Len(vmlist)
    /\ LET vm == vmlist[pos + 1]
       IN  /\ Len(vm.statuses) >= 2
           /\ ~InterfaceKeyError(vm.nics)
           /\ inventory' = IF Contains(vm.statuses[2], "running")
                           THEN _add_host(inventory, public, HostVars(pos + 1, vm))
                           ELSE inventory
    /\ pos' = pos + 1
    /\ UNCHANGED <<public, vmlist, ipc, raised, printed>>

\* statuses[1] of a VM with fewer than two status entries raises IndexError,
\* which leaves get_inventory and is swallowed by __init__.
VisitVMIndexError ==
    /\ ipc = "traverse"
    /\ pos < Len(vmlist)
    /\ Len(vmlist[pos + 1].statuses) < 2
    /\ raised' = "IndexError"
    /\ ipc' = "print"
    /\ UNCHANGED <<public, vmlist, pos, inventory, printed>>

\* A remote call made for the VM (virtual_machines.get, network_interfaces.get,
\* public_ip_addresses.get) raises: the exception leaves get_inventory too.
VisitVMRemoteError ==
    /\ ipc = "traverse"
    /\ pos < Len(vmlist)
    /\ raised' = "RemoteError"
    /\ ipc' = "print"
    /\ UNCHANGED <<public, vmlist, pos, inventory, printed>>

\* The iterator is exhausted: get_inventory returns.
EndOfList ==
    /\ ipc = "traverse"
    /\ pos = Len(vmlist)
    /\ ipc' = "print"
    /\ UNCHANGED <<public, vmlist, pos, inventory, raised, printed>>

PrintNothingAfterError ==
    /\ ipc = "print"
    /\ printed' = IF raised = "no" THEN inventory
                  ELSE [hostvars |-> EmptyDict, azure_running |-> <<>>]
    /\ ipc' = "exit"
    /\ UNCHANGED <<public, vmlist, pos, inventory, raised>>

\* print(json.dumps(self.inventory, indent=2))
PrintInventory ==
    /\ ipc = "print"
    /\ printed' = inventory
    /\ ipc' = "exit"
    /\ UNCHANGED <<public, vmlist, pos, inventory, raised>>

(***************************************************************************)
(* Reconciler (azure_rm_loadbalancer_c.py): the request                    *)
(*                                                                         *)
(* An option the request omits is "" (a string) or 0 (a number): the       *)
(* module reads every option with .get() and tests it for truth, so it     *)
(* cannot tell an omitted option from an empty or zero one.                *)
(* enable_floating_ip is a tagged value: "omitted", "bool:True",           *)
(* "bool:False", or "str:<text>" for a string.                             *)
(***************************************************************************)
Front(name, pip, priv, subnet, vnet, rg) ==
    [name |-> name, public_ip_name |-> pip, private_ip_address |-> priv,
     subnet_name |-> subnet, vnet_name |-> vnet, resource_group |-> rg]

Probe(name, port, protocol, interval, fail_count, request_path) ==
    [name |-> name, port |-> port, protocol |-> protocol, interval |-> interval,
     fail_count |-> fail_count, request_path |-> request_path]

Rule(name, fe, be, pr, protocol, dist, fport, bport, idle, efi) ==
    [name |-> name, frontend_name |-> fe, backend_name |-> be, probe_name |-> pr,
     protocol |-> protocol, load_distribution |-> dist, frontend_port |-> fport,
     backend_port |-> bport, idle_timeout |-> idle, enable_floating_ip |-> efi]

NatRule(name, fe, protocol, fport, bport, idle, efi) ==
    [name |-> name, frontend_name |-> fe, protocol |-> protocol, frontend_port |-> fport,
     backend_port |-> bport, idle_timeout |-> idle, enable_floating_ip |-> efi]

\* self.fail(msg): the messages are fixed texts that name an option and a list
\* and have no placeholder for the item.
Failure(field, list) == [field |-> field, list |-> list, item |-> ""]

NoFailure == Failure("", "")

Names(list) == {list[i].name : i \in 1..Len(list)}

Elems(list) == {list[i] : i \in 1..Len(list)}

(***************************************************************************)
(* CHECK INPUT AND SET DEFAULT VALUE (exec_module)                         *)
(***************************************************************************)
\* the checks of one turn of "for front in self.frontend_ip_configs"
FrontFailure(front, frontnamelist) ==
    IF front.name = "" \/ front.name \in frontnamelist
    THEN Failure("name", "frontend_ip_configs")
    ELSE IF front.public_ip_name = "" /\ ~(front.subnet_name # "" /\ front.vnet_name # "")
    THEN Failure("public_ip_name", "frontend_ip_configs")
    ELSE NoFailure

FrontDefaults(front, resource_group) ==
    IF front.resource_group = "" THEN [front EXCEPT !.resource_group = resource_group] ELSE front

ProbeFailure(probe, probenamelist) ==
    IF probe.name = "" \/ probe.name \in probenamelist
    THEN Failure("name", "health_probes")
    ELSE NoFailure

ProbeDefaults(probe) ==
    [probe EXCEPT !.fail_count = IF @ = 0 THEN 3 ELSE @,
                  !.interval = IF @ = 0 THEN 15 ELSE @,
                  !.port = IF @ = 0 THEN 80 ELSE @,
                  !.protocol = IF @ = "" THEN "Tcp" ELSE @,
                  !.request_path = IF @ = "" THEN "/" ELSE @]

RuleFailureNoProbeCheck(rule, rulenamelist, frontnamelist, backend_pools, probenamelist) ==
    IF rule.name = "" \/ rule.name \in rulenamelist
    THEN Failure("name", "load_balancing_rules")
    ELSE IF rule.frontend_name = "" \/ rule.frontend_name \notin frontnamelist
    THEN Failure("frontend_name", "load_balancing_rules")
    ELSE IF rule.backend_name = "" \/ rule.backend_name \notin backend_pools
    THEN Failure("backend_name", "load_balancing_rules")
    ELSE NoFailure

RuleFailure(rule, rulenamelist, frontnamelist, backend_pools, probenamelist) ==
    IF rule.name = "" \/ rule.name \in rulenamelist
    THEN Failure("name", "load_balancing_rules")
    ELSE IF rule.frontend_name = "" \/ rule.frontend_name \notin frontnamelist
    THEN Failure("frontend_name", "load_balancing_rules")
    ELSE IF rule.backend_name = "" \/ rule.backend_name \notin backend_pools
    THEN Failure("backend_name", "load_balancing_rules")
    ELSE IF rule.probe_name = "" \/ rule.probe_name \notin probenamelist
    THEN Failure("probe_name", "load_balancing_rules")
    ELSE NoFailure

\* rule.get('enable_floating_ip') in ['True', 'true', 'Yes', 'yes']
FloatingIp(efi) == efi \in {"str:True", "str:true", "str:Yes", "str:yes"}

RuleDefaults(rule) ==
    LET frontend_port == IF rule.frontend_port = 0 THEN 80 ELSE rule.frontend_port
    IN  [rule EXCEPT !.load_distribution = IF @ = "" THEN "Default" ELSE @,
                     !.frontend_port = frontend_port,
                     !.backend_port = IF @ = 0 THEN frontend_port ELSE @,
                     !.protocol = IF @ = "" THEN "Tcp" ELSE @,
                     !.enable_floating_ip = FloatingIp(@),
                     !.idle_timeout = IF @ = 0 THEN 15 ELSE @]

NatFailure(nat, natnamelist, frontnamelist) ==
    IF nat.name = "" \/ nat.name \in natnamelist
    THEN Failure("name", "inbound_nat_rules")
    ELSE IF nat.frontend_name = "" \/ nat.frontend_name \notin frontnamelist
    THEN Failure("frontend_name", "inbound_nat_rules")
    ELSE IF nat.frontend_port = 0
    THEN Failure("frontend_port", "inbound_nat_rules")
    ELSE IF nat.backend_port = 0
    THEN Failure("backend_port", "inbound_nat_rules")
    ELSE NoFailure

NatDefaults(nat) ==
    [nat EXCEPT !.protocol = IF @ = "" THEN "Tcp" ELSE @,
                !.enable_floating_ip = FloatingIp(@),
                !.idle_timeout = IF @ = 0 THEN 4 ELSE @]

\* The four loops, each stopping at the first self.fail.
RECURSIVE CheckFronts(_, _)
CheckFronts(fronts, i) ==
    IF i > Len(fronts) THEN NoFailure
    ELSE LET f == FrontFailure(fronts[i], Names(SubSeq(fronts, 1, i - 1)))
         IN  IF f # NoFailure THEN f ELSE CheckFronts(fronts, i + 1)

RECURSIVE CheckProbes(_, _)
CheckProbes(probes, i) ==
    IF i > Len(probes) THEN NoFailure
    ELSE LET f == ProbeFailure(probes[i], Names(SubSeq(probes, 1, i - 1)))
         IN  IF f # NoFailure THEN f ELSE CheckProbes(probes, i + 1)

RECURSIVE CheckRules(_, _)
CheckRules(args, i) ==
    IF i > Len(args.load_balancing_rules) THEN NoFailure
    ELSE LET f == RuleFailure(args.load_balancing_rules[i],
                              Names(SubSeq(args.load_balancing_rules, 1, i - 1)),
                              Names(args.frontend_ip_configs),
                              Elems(args.backend_pools),
                              Names(args.health_probes))
         IN  IF f # NoFailure THEN f ELSE CheckRules(args, i + 1)

RECURSIVE CheckNats(_, _)
CheckNats(args, i) ==
    IF i > Len(args.inbound_nat_rules) THEN NoFailure
    ELSE LET f == NatFailure(args.inbound_nat_rules[i],
                             Names(SubSeq(args.inbound_nat_rules, 1, i - 1)),
                             Names(args.frontend_ip_configs))
         IN  IF f # NoFailure THEN f ELSE CheckNats(args, i + 1)

\* The first failure of the input check, NoFailure when it passes.
CheckInput(args) ==
    LET f1 == CheckFronts(args.frontend_ip_configs, 1)
        f2 == CheckProbes(args.health_probes, 1)
        f3 == CheckRules(args, 1)
        f4 == CheckNats(args, 1)
    IN  IF f1 # NoFailure THEN f1
        ELSE IF f2 # NoFailure THEN f2
        ELSE IF f3 # NoFailure THEN f3
        ELSE f4

\* The request after the input check has set the default values in place.
SetDefaults(args, resource_group) ==
    [frontend_ip_configs |->
         [i \in 1..Len(args.frontend_ip_configs) |->
             FrontDefaults(args.frontend_ip_configs[i], resource_group)],
     backend_pools |-> args.backend_pools,
     health_probes |->
         [i \in 1..Len(args.health_probes) |-> ProbeDefaults(args.health_probes[i])],
     load_balancing_rules |->
         [i \in 1..Len(args.load_balancing_rules) |-> RuleDefaults(args.load_balancing_rules[i])],
     inbound_nat_rules |->
         [i \in 1..Len(args.inbound_nat_rules) |-> NatDefaults(args.inbound_nat_rules[i])]]

(***************************************************************************)
(* Reconciler: resource ids and SDK objects                                *)
(***************************************************************************)
ResourceGroup == "rg"
LbName == "lb"

frontend_ip_configuration_id(subscription_id, resource_group_name, load_balancer_name, name) ==
    <<"/", "subscriptions", "/", subscription_id, "/", "resourceGroups", "/",
      resource_group_name, "/", "providers", "/", "Microsoft.Network", "/", "loadBalancers",
      "/", load_balancer_name, "/", "frontendIPConfigurations", "/", name>>

backend_address_pool_id(subscription_id, resource_group_name, load_balancer_name, name) ==
    <<"/", "subscriptions", "/", subscription_id, "/", "resourceGroups", "/",
      resource_group_name, "/", "providers", "/", "Microsoft.Network", "/", "loadBalancers",
      "/", load_balancer_name, "/", "backendAddressPools", "/", name>>

ProbeIdAsPool(subscription_id, resource_group_name, load_balancer_name, name) ==
    <<"/", "subscriptions", "/", subscription_id, "/", "resourceGroups", "/",
      resource_group_name, "/", "providers", "/", "Microsoft.Network", "/", "loadBalancers",
      "/", load_balancer_name, "/", "backendAddressPools", "/", name>>

probe_id(subscription_id, resource_group_name, load_balancer_name, name) ==
    <<"/", "subscriptions", "/", subscription_id, "/", "resourceGroups", "/",
      resource_group_name, "/", "providers", "/", "Microsoft.Network", "/", "loadBalancers",
      "/", load_balancer_name, "/", "probes", "/", name>>

\* network_client.subnets.get(resource_group, vnet_name, subnet_name): the
\* subnet object, of which the module uses the id.
get_subnet(resource_group, vnet_name, subnet_name) ==
    [id |-> <<"/", "subscriptions", "/", Subscription, "/", "resourceGroups", "/",
              resource_group, "/", "providers", "/", "Microsoft.Network", "/",
              "virtualNetworks", "/", vnet_name, "/", "subnets", "/", subnet_name>>]

\* network_client.public_ip_addresses.get(self.resource_group, name)
get_public_ip_address(name) ==
    [id |-> <<"/", "subscriptions", "/", Subscription, "/", "resourceGroups", "/",
              ResourceGroup, "/", "providers", "/", "Microsoft.Network", "/",
              "publicIPAddresses", "/", name>>]

SubResource(id) == [id |-> id]

\* The models of azure.mgmt.network; an argument that is not given is None.
FrontendIPConfiguration(name, private_ip_address, private_ip_allocation_method, subnet, public_ip_address) ==
    [name |-> name, private_ip_address |-> private_ip_address,
     private_ip_allocation_method |-> private_ip_allocation_method,
     subnet |-> subnet, public_ip_address |-> public_ip_address]

BackendAddressPool(name) == [name |-> name]

ProbeObj(name, protocol, port, interval_in_seconds, number_of_probes, request_path) ==
    [name |-> name, protocol |-> protocol, port |-> port,
     interval_in_seconds |-> interval_in_seconds, number_of_probes |-> number_of_probes,
     request_path |-> request_path]

LoadBalancingRule(name, frontend_ip_configuration, backend_address_pool, probe, protocol, load_distribution, frontend_port, backend_port, idle_timeout_in_minutes, enable_floating_ip) ==
    [name |-> name, frontend_ip_configuration |-> frontend_ip_configuration,
     backend_address_pool |-> backend_address_pool, probe |-> probe, protocol |-> protocol,
     load_distribution |-> load_distribution, frontend_port |-> frontend_port,
     backend_port |-> backend_port, idle_timeout_in_minutes |-> idle_timeout_in_minutes,
     enable_floating_ip |-> enable_floating_ip]

InboundNatRule(name, frontend_ip_configuration, frontend_port, backend_port, protocol, enable_floating_ip, idle_timeout_in_minutes) ==
    [name |-> name, frontend_ip_configuration |-> frontend_ip_configuration,
     frontend_port |-> frontend_port, backend_port |-> backend_port, protocol |-> protocol,
     enable_floating_ip |-> enable_floating_ip,
     idle_timeout_in_minutes |-> idle_timeout_in_minutes]

LoadBalancer(fronts, backs, probes, rules, nats) ==
    [frontend_ip_configurations |-> fronts, backend_address_pools |-> backs,
     probes |-> probes, load_balancing_rules |-> rules, inbound_nat_rules |-> nats]

(***************************************************************************)
(* load_balancer_to_dict                                                   *)
(***************************************************************************)
\* _.probe.id (and the like) of a rule without that reference raises
\* AttributeError.
ToDictRaises(lb) ==
    \/ \E i \in 1..Len(lb.load_balancing_rules) :
           LET r == lb.load_balancing_rules[i]
           IN  NoneObj \in {r.frontend_ip_configuration, r.backend_address_pool, r.probe}
    \/ \E i \in 1..Len(lb.inbound_nat_rules) :
           lb.inbound_nat_rules[i].frontend_ip_configuration = NoneObj

FrontToDict(o) ==
    [name |-> o.name, private_ip_address |-> o.private_ip_address,
     private_ip_allocation_method |-> o.private_ip_allocation_method,
     subnet |-> IF o.subnet # NoneObj THEN [id |-> o.subnet.id] ELSE NoneObj,
     public_ip_address |->
         IF o.public_ip_address # NoneObj THEN [id |-> o.public_ip_address.id] ELSE NoneObj]

RuleToDict(o) ==
    [name |-> o.name, protocol |-> o.protocol,
     frontend_ip_configuration_id |-> o.frontend_ip_configuration.id,
     backend_address_pool_id |-> o.backend_address_pool.id,
     probe_id |-> o.probe.id,
     load_distribution |-> o.load_distribution, frontend_port |-> o.frontend_port,
     backend_port |-> o.backend_port, idle_timeout_in_minutes |-> o.idle_timeout_in_minutes,
     enable_floating_ip |-> o.enable_floating_ip]

\* The SDK's InboundNatRule has no attribute enable_floating_point_ip: the
\* hasattr test fails and the dict holds None.
NatToDict(o) ==
    [name |-> o.name, frontend_ip_configuration_id |-> o.frontend_ip_configuration.id,
     protocol |-> o.protocol, frontend_port |-> o.frontend_port,
     backend_port |-> o.backend_port, idle_timeout_in_minutes |-> o.idle_timeout_in_minutes,
     enable_floating_point_ip |-> None]

load_balancer_to_dict(lb) ==
    [frontend_ip_configurations |->
         [i \in 1..Len(lb.frontend_ip_configurations) |->
             FrontToDict(lb.frontend_ip_configurations[i])],
     backend_address_pools |-> lb.backend_address_pools,
     load_balancing_rules |->
         [i \in 1..Len(lb.load_balancing_rules) |-> RuleToDict(lb.load_balancing_rules[i])],
     probes |-> lb.probes,
     inbound_nat_rules |->
         [i \in 1..Len(lb.inbound_nat_rules) |-> NatToDict(lb.inbound_nat_rules[i])]]

\* list_to_dict(listin, 'name'): a later item replaces an earlier one of its name
list_to_dict(listin) ==
    [n \in Names(listin) |->
        listin[CHOOSE i \in 1..Len(listin) :
                  /\ listin[i].name = n
                  /\ \A j \in (i + 1)..Len(listin) : listin[j].name # n]]

(***************************************************************************)
(* Check difference with current status (exec_module)                      *)
(*                                                                         *)
(* An outcome is "ok" or the exception the comparison raises.  DiffErr,    *)
(* KeyError and IndexError are caught and mean changed; TypeError is not   *)
(* caught.  The keys of a decoded id are kept apart from the fields of     *)
(* the dict they are merged into by update(): no path type of the model    *)
(* is the name of a field.                                                 *)
(***************************************************************************)
\* the first outcome of a sequence of checks that is not "ok"
RECURSIVE FirstRaised(_)
FirstRaised(checks) ==
    IF checks = <<>> THEN "ok"
    ELSE IF Head(checks) # "ok" THEN Head(checks)
    ELSE FirstRaised(Tail(checks))

\* if param and param != results[key]: raise DiffErr  -- results[key] of a decoded id
DiffersFromId(param, ids, key) ==
    IF param = "" THEN "ok"
    ELSE IF Str(key) \notin DOMAIN ids THEN "KeyError"
    ELSE IF Str(param) # ids[Str(key)] THEN "DiffErr"
    ELSE "ok"

\* if param and param != value: raise DiffErr  -- strings
Differs(param, value) == IF param # "" /\ param # value THEN "DiffErr" ELSE "ok"

\* if param and param != value: raise DiffErr  -- numbers
DiffersN(param, value) == IF param # 0 /\ param # value THEN "DiffErr" ELSE "ok"

\* a str is never equal to a dict or to None
StrEqualsObj(str, obj) == FALSE

FrontOutcome(param, results_fronts) ==
    IF param.name \notin DOMAIN results_fronts THEN "KeyError"
    ELSE LET rf == results_fronts[param.name]
         IN  IF rf.subnet = NoneObj THEN "TypeError"
             ELSE LET ids == azureid_to_dict(rf.subnet.id)
                  IN  FirstRaised(<<
                          IF param.public_ip_name # ""
                             /\ ~StrEqualsObj(param.public_ip_name, rf.public_ip_address)
                          THEN "DiffErr" ELSE "ok",
                          IF param.private_ip_address # ""
                          THEN IF \/ param.private_ip_address # rf.private_ip_address
                                  \/ rf.private_ip_allocation_method # "Static"
                               THEN "DiffErr" ELSE "ok"
                          ELSE IF rf.private_ip_allocation_method # "Dynamic"
                               THEN "DiffErr" ELSE "ok",
                          DiffersFromId(param.subnet_name, ids, "subnets"),
                          DiffersFromId(param.vnet_name, ids, "virtualNetworks"),
                          DiffersFromId(param.resource_group, ids, "resourceGroups")>>)

\* Python's order of the names of the model
NameOrder == <<"b1", "b2", "b3", "bX">>

NameRank(n) == CHOOSE i \in 1..Len(NameOrder) : NameOrder[i] = n

\* list.sort()
RECURSIVE Sort(_)
Sort(list) ==
    IF list = <<>> THEN <<>>
    ELSE LET m == CHOOSE i \in 1..Len(list) :
                     /\ \A j \in 1..Len(list) : NameRank(list[i]) <= NameRank(list[j])
                     /\ \A j \in 1..(i - 1) : NameRank(list[j]) # NameRank(list[i])
         IN  <<list[m]>> \o Sort(SubSeq(list, 1, m - 1) \o SubSeq(list, m + 1, Len(list)))

\* the keys of a dict, as a sorted list
RECURSIVE SortedKeys(_)
SortedKeys(keys) ==
    IF keys = {} THEN <<>>
    ELSE LET m == CHOOSE n \in keys : \A o \in keys : NameRank(n) <= NameRank(o)
         IN  <<m>> \o SortedKeys(keys \ {m})

\* results_backs[0] != self.backend_pools[0], both lists sorted.  The module is
\* Python 2 ("#!/usr/bin/python", __future__ imports): keys() is a list, which
\* sort() sorts in place.
BackOutcome(backend_pools, results_pools) ==
    IF backend_pools = <<>> THEN "ok"
    ELSE LET results_backs == SortedKeys(Names(results_pools))
         IN  IF results_backs = <<>> THEN "IndexError"
             ELSE IF results_backs[1] # Sort(backend_pools)[1] THEN "DiffErr"
             ELSE "ok"

\* A request_path that differs raises KeyError while the message of the DiffErr
\* is formatted (results_probes['request_path']): either way the outcome is changed.
ProbeOutcome(param, results_probes) ==
    IF param.name \notin DOMAIN results_probes THEN "KeyError"
    ELSE LET rp == results_probes[param.name]
         IN  FirstRaised(<<
                 DiffersN(param.port, rp.port),
                 Differs(param.protocol, rp.protocol),
                 DiffersN(param.interval, rp.interval_in_seconds),
                 DiffersN(param.fail_count, rp.number_of_probes),
                 IF param.protocol = "Http" /\ param.request_path # ""
                    /\ param.request_path # rp.request_path
                 THEN "KeyError" ELSE "ok">>)

RuleOutcome(param, results_rules) ==
    IF param.name \notin DOMAIN results_rules THEN "KeyError"
    ELSE LET rr == results_rules[param.name]
             ids == Update(Update(azureid_to_dict(rr.frontend_ip_configuration_id),
                                  azureid_to_dict(rr.probe_id)),
                           azureid_to_dict(rr.backend_address_pool_id))
         IN  FirstRaised(<<
                 DiffersFromId(param.frontend_name, ids, "frontendIPConfigurations"),
                 DiffersFromId(param.backend_name, ids, "backendAddressPools"),
                 DiffersFromId(param.probe_name, ids, "probes"),
                 Differs(param.protocol, rr.protocol),
                 Differs(param.load_distribution, rr.load_distribution),
                 DiffersN(param.frontend_port, rr.frontend_port),
                 DiffersN(param.backend_port, rr.backend_port),
                 DiffersN(param.idle_timeout, rr.idle_timeout_in_minutes),
                 IF param.enable_floating_ip /\ param.enable_floating_ip # rr.enable_floating_ip
                 THEN "DiffErr" ELSE "ok">>)

NatOutcomeFloatingIp(param, results_nats) ==
    IF param.name \notin DOMAIN results_nats THEN "KeyError"
    ELSE LET rn == results_nats[param.name]
             ids == azureid_to_dict(rn.frontend_ip_configuration_id)
         IN  FirstRaised(<<
                 Differs(param.protocol, rn.protocol),
                 DiffersN(param.frontend_port, rn.frontend_port),
                 DiffersN(param.backend_port, rn.backend_port),
                 DiffersFromId(param.frontend_name, ids, "frontendIPConfigurations"),
                 DiffersN(param.idle_timeout, rn.idle_timeout_in_minutes),
                 IF param.enable_floating_ip /\ rn.enable_floating_point_ip # "True"
                 THEN "DiffErr" ELSE "ok">>)

\* enable_floating_ip is not checked (the check is commented out in the source).
NatOutcome(param, results_nats) ==
    IF param.name \notin DOMAIN results_nats THEN "KeyError"
    ELSE LET rn == results_nats[param.name]
             ids == azureid_to_dict(rn.frontend_ip_configuration_id)
         IN  FirstRaised(<<
                 Differs(param.protocol, rn.protocol),
                 DiffersN(param.frontend_port, rn.frontend_port),
                 DiffersN(param.backend_port, rn.backend_port),
                 DiffersFromId(param.frontend_name, ids, "frontendIPConfigurations"),
                 DiffersN(param.idle_timeout, rn.idle_timeout_in_minutes)>>)

\* A loop over the keys of a dict: the order of the keys is the interpreter's,
\* so any item that raises may be the first to raise.
LoopOutcomes(outcomes) == IF outcomes \subseteq {"ok"} THEN {"ok"} ELSE outcomes \ {"ok"}

\* the next group of checks is reached only if the one before raised nothing
Then(first, next) == IF first = {"ok"} THEN next ELSE first

FrontsOutcomes(params, results) ==
    LoopOutcomes({FrontOutcome(params.frontend_ip_configs[i],
                               list_to_dict(results.frontend_ip_configurations)) :
                     i \in 1..Len(params.frontend_ip_configs)})

\* The outcomes the comparison of the request with the dict of the load
\* balancer may have.
DiffOutcomes(params, results) ==
    Then(FrontsOutcomes(params, results),
    Then({BackOutcome(params.backend_pools, results.backend_address_pools)},
    Then(LoopOutcomes({ProbeOutcome(params.health_probes[i], list_to_dict(results.probes)) :
                          i \in 1..Len(params.health_probes)}),
    Then(LoopOutcomes({RuleOutcome(params.load_balancing_rules[i],
                                   list_to_dict(results.load_balancing_rules)) :
                          i \in 1..Len(params.load_balancing_rules)}),
         LoopOutcomes({NatOutcome(params.inbound_nat_rules[i],
                                  list_to_dict(results.inbound_nat_rules)) :
                          i \in 1..Len(params.inbound_nat_rules)})))))

\* self.backend_pools.sort() is reached when the frontends raised nothing
AfterDiff(params, results) ==
    IF FrontsOutcomes(params, results) = {"ok"} /\ params.backend_pools # <<>>
    THEN [params EXCEPT !.backend_pools = Sort(@)]
    ELSE params

(***************************************************************************)
(* From now changed==True: the replacement load balancer (exec_module)     *)
(***************************************************************************)
RECURSIVE BuildFronts(_, _)
BuildFronts(fronts, i) ==
    IF i > Len(fronts) THEN <<>>
    ELSE LET front == fronts[i]
             built ==
                 IF front.public_ip_name # ""
                 THEN <<FrontendIPConfiguration(front.name, None, None, NoneObj,
                                                get_public_ip_address(front.public_ip_name))>>
                 ELSE IF front.vnet_name # "" /\ front.subnet_name # ""
                 THEN IF front.private_ip_address # ""
                      THEN <<FrontendIPConfiguration(front.name, front.private_ip_address,
                                 "Static",
                                 get_subnet(front.resource_group, front.vnet_name,
                                            front.subnet_name),
                                 NoneObj)>>
                      ELSE <<FrontendIPConfiguration(front.name, None, "Dynamic",
                                 get_subnet(front.resource_group, front.vnet_name,
                                            front.subnet_name),
                                 NoneObj)>>
                 ELSE <<>>
         IN  built \o BuildFronts(fronts, i + 1)

BuildProbe(probe) ==
    IF probe.protocol = "Http"
    THEN ProbeObj(probe.name, probe.protocol, probe.port, probe.interval, probe.fail_count,
                  probe.request_path)
    ELSE ProbeObj(probe.name, probe.protocol, probe.port, probe.interval, probe.fail_count,
                  None)

BuildRule(rule) ==
    LoadBalancingRule(rule.name,
        SubResource(frontend_ip_configuration_id(Subscription, ResourceGroup, LbName,
                                                 rule.frontend_name)),
        SubResource(backend_address_pool_id(Subscription, ResourceGroup, LbName,
                                            rule.backend_name)),
        SubResource(probe_id(Subscription, ResourceGroup, LbName, rule.probe_name)),
        rule.protocol, rule.load_distribution, rule.frontend_port, rule.backend_port,
        rule.idle_timeout, rule.enable_floating_ip)

BuildNat(nat) ==
    InboundNatRule(nat.name,
        SubResource(frontend_ip_configuration_id(Subscription, ResourceGroup, LbName,
                                                 nat.frontend_name)),
        nat.frontend_port, nat.backend_port, nat.protocol, nat.enable_floating_ip,
        nat.idle_timeout)

\* LoadBalancer(**load_balancer_props)
BuildLoadBalancer(params) ==
    LoadBalancer(
        BuildFronts(params.frontend_ip_configs, 1),
        [i \in 1..Len(params.backend_pools) |-> BackendAddressPool(params.backend_pools[i])],
        [i \in 1..Len(params.health_probes) |-> BuildProbe(params.health_probes[i])],
        [i \in 1..Len(params.load_balancing_rules) |-> BuildRule(params.load_balancing_rules[i])],
        [i \in 1..Len(params.inbound_nat_rules) |-> BuildNat(params.inbound_nat_rules[i])])

(***************************************************************************)
(* Reconciler: the requests and the remote states of the model             *)
(***************************************************************************)
\* Every list of a request is given, possibly as the empty list []: <<>>.
MaxItems == 5
MaxRuns == 2

FrontLists ==
    LET fi == Front("f1", "", "", "sn", "vn", "")
        fs == Front("f1", "", "10.0.0.4", "sn", "vn", "")
        fp == Front("f1", "pipA", "", "", "", "")
        f2 == Front("f2", "", "", "sn", "vn", "")
        fn == Front("f1", "", "", "", "vn", "")
    IN  {<<>>, <<fi>>, <<fs>>, <<fp>>, <<fn>>, <<fi, f2>>, <<fi, fi>>}

BackendLists == {<<>>, <<"b1">>, <<"b1", "b2">>, <<"b2", "b1">>, <<"b1", "b1">>}

ProbeLists ==
    LET p1 == Probe("p1", 0, "", 0, 0, "")
        ph == Probe("p1", 8080, "Http", 5, 2, "/health")
    IN  {<<>>, <<p1>>, <<ph>>, <<p1, p1>>}

RuleLists ==
    LET r(fe, be, pr, efi) == Rule("r1", fe, be, pr, "", "", 0, 0, 0, efi)
    IN  {<<>>, <<r("f1", "b1", "p1", "omitted")>>, <<r("f1", "b1", "p1", "str:True")>>,
         <<r("f1", "b1", "p1", "bool:True")>>, <<r("f9", "b1", "p1", "omitted")>>,
         <<r("f1", "b9", "p1", "omitted")>>, <<r("f1", "b1", "p9", "omitted")>>,
         <<r("f1", "b1", "p1", "omitted"), r("f1", "b1", "p1", "omitted")>>,
         <<Rule("r1", "f1", "b1", "p1", "", "", 8080, 0, 0, "omitted")>>}

NatLists ==
    LET n(fe, fport) == NatRule("n1", fe, "", fport, 22, 0, "omitted")
    IN  {<<>>, <<n("f1", 2222)>>, <<n("f9", 2222)>>, <<n("f1", 0)>>,
         <<NatRule("n1", "f1", "", 2222, 22, 0, "str:True")>>}

Request(fronts, backs, probes, rules, nats) ==
    [frontend_ip_configs |-> fronts, backend_pools |-> backs, health_probes |-> probes,
     load_balancing_rules |-> rules, inbound_nat_rules |-> nats]

NoRequest == Request(<<>>, <<>>, <<>>, <<>>, <<>>)

Items(args) ==
    Len(args.frontend_ip_configs) + Len(args.backend_pools) + Len(args.health_probes)
    + Len(args.load_balancing_rules) + Len(args.inbound_nat_rules)

Requests ==
    {args \in {Request(f, b, p, r, n) : f \in FrontLists, b \in BackendLists, p \in ProbeLists,
                                        r \in RuleLists, n \in NatLists} :
        Items(args) <= MaxItems}

\* A load balancer that exists before the first run: made by an earlier run
\* of the module, or made with a public frontend by other means.
Remotes ==
    {NoneObj,
     LoadBalancer(<<FrontendIPConfiguration("f1", None, "Dynamic",
                                            get_subnet(ResourceGroup, "vn", "sn"), NoneObj)>>,
                  <<BackendAddressPool("b1")>>, <<>>, <<>>, <<>>),
     LoadBalancer(<<FrontendIPConfiguration("f1", None, None, NoneObj,
                                            get_public_ip_address("pipA"))>>,
                  <<>>, <<>>, <<>>, <<>>)}

\* What another actor may change of a load balancer the module has submitted:
\* one field of one sub-resource.
Drifts(lb) ==
    {[kind |-> "backend_pool",
      lb |-> [lb EXCEPT !.backend_address_pools[Len(lb.backend_address_pools)].name = "bX"]] :
         x \in {1} \cap DOMAIN lb.backend_address_pools}
    \cup {[kind |-> "probe_port", lb |-> [lb EXCEPT !.probes[1].port = 8081]] :
             x \in {1} \cap DOMAIN lb.probes}
    \cup {[kind |-> "rule_enable_floating_ip",
           lb |-> [lb EXCEPT !.load_balancing_rules[1].enable_floating_ip = ~@]] :
             x \in {1} \cap DOMAIN lb.load_balancing_rules}
    \cup {[kind |-> "rule_backend_port",
           lb |-> [lb EXCEPT !.load_balancing_rules[1].backend_port = 8081]] :
             x \in {1} \cap DOMAIN lb.load_balancing_rules}
    \cup {[kind |-> "front_private_ip_address",
           lb |-> [lb EXCEPT !.frontend_ip_configurations[1].private_ip_address = "10.0.0.9"]] :
             x \in {i \in {1} \cap DOMAIN lb.frontend_ip_configurations :
                       lb.frontend_ip_configurations[i].private_ip_allocation_method = "Static"}}
    \cup {[kind |-> "nat_backend_port",
           lb |-> [lb EXCEPT !.inbound_nat_rules[1].backend_port = 8081]] :
             x \in {1} \cap DOMAIN lb.inbound_nat_rules}

(***************************************************************************)
(* Reconciler: exec_module, one action per call to the provider and per    *)
(* way the call may end                                                    *)
(***************************************************************************)
\* no playbook runs against a shared load balancer
ConcurrentOff == runs = <<>> /\ store = NoneObj /\ writes = <<>>

ReconcilerOff ==
    /\ state_arg = "off" /\ check_mode = FALSE /\ desired = NoRequest /\ self = NoRequest
    /\ remote = NoneObj /\ existed = FALSE /\ rpc = "off" /\ changed = FALSE
    /\ results_state = EmptyDict /\ props = NoneObj /\ calls = <<>> /\ failure = NoFailure
    /\ fetched = "none" /\ run = 0 /\ basis = "fresh" /\ drift = "none" /\ cloud_error = ""

\* AzureRMLoadBalancer.__init__: self.results = dict(changed=False, state=dict())
InitReconciler ==
    /\ state_arg \in {"present", "absent"}
    /\ check_mode \in BOOLEAN
    /\ desired \in (IF state_arg = "present" THEN Requests ELSE {NoRequest})
    /\ self = desired
    /\ remote \in Remotes
    /\ existed = (remote # NoneObj)
    /\ rpc = "start" /\ changed = FALSE /\ results_state = EmptyDict /\ props = NoneObj
    /\ calls = <<>> /\ failure = NoFailure /\ fetched = "none" /\ run = 1
    /\ basis = "fresh" /\ drift = "none" /\ cloud_error = ""

\* self.fail of a provider error: the report names no option of the lists
ProviderFailure(what) == [field |-> what, list |-> "", item |-> ""]

\* load_balancers.delete(...).wait() returns
DeleteOk ==
    /\ rpc = "start" /\ state_arg = "absent"
    /\ calls' = Append(calls, "load_balancers.delete")
    /\ remote' = NoneObj
    /\ changed' = TRUE
    /\ rpc' = "done"
    /\ UNCHANGED <<state_arg, check_mode, desired, cloud_error, self, existed, results_state, props,
                   failure, fetched, run, basis, drift>>

\* load_balancers.delete(...).wait() raises CloudError
DeleteCloudError ==
    /\ rpc = "start" /\ state_arg = "absent"
    /\ calls' = Append(calls, "load_balancers.delete")
    /\ changed' = FALSE
    /\ rpc' = "done"
    /\ cloud_error' = "load_balancers.delete"
    /\ UNCHANGED <<state_arg, check_mode, desired, self, remote, existed, results_state,
                   props, failure, fetched, run, basis, drift>>

GetResourceGroup ==
    /\ rpc = "start" /\ state_arg = "present"
    /\ calls' = Append(calls, "resource_groups.get")
    /\ rpc' = "validate"
    /\ UNCHANGED <<state_arg, check_mode, desired, cloud_error, self, remote, existed, changed,
                   results_state, props, failure, fetched, run, basis, drift>>

GetResourceGroupCloudError ==
    /\ rpc = "start" /\ state_arg = "present"
    /\ calls' = Append(calls, "resource_groups.get")
    /\ failure' = ProviderFailure("resource_group")
    /\ rpc' = "failed"
    /\ cloud_error' = "resource_groups.get"
    /\ UNCHANGED <<state_arg, check_mode, desired, self, remote, existed, changed,
                   results_state, props, fetched, run, basis, drift>>

CheckInputAndSetDefaults ==
    /\ rpc = "validate"
    /\ LET f == CheckInput(self)
       IN  IF f # NoFailure
           THEN /\ failure' = f
                /\ rpc' = "failed"
                /\ self' = self
           ELSE /\ self' = SetDefaults(self, ResourceGroup)
                /\ rpc' = "fetch"
                /\ failure' = failure
    /\ UNCHANGED <<state_arg, check_mode, desired, cloud_error, remote, existed, changed, results_state,
                   props, calls, fetched, run, basis, drift>>

AfterFetchAlwaysBuild(chg, results) ==
    /\ changed' = chg
    /\ rpc' = "build" /\ results_state' = results_state

\* "if not changed or self.check_mode: ... return self.results"
AfterFetch(chg, results) ==
    /\ changed' = chg
    /\ IF ~chg \/ check_mode
       THEN rpc' = "done" /\ results_state' = results
       ELSE rpc' = "build" /\ results_state' = results_state

\* load_balancers.get returns the load balancer: the comparison follows
FetchFound ==
    /\ rpc = "fetch" /\ remote # NoneObj
    /\ calls' = Append(calls, "load_balancers.get")
    /\ fetched' = "found"
    /\ IF ToDictRaises(remote)
       THEN rpc' = "crashed" /\ UNCHANGED <<changed, self, results_state>>
       ELSE LET results == load_balancer_to_dict(remote)
            IN  \E outcome \in DiffOutcomes(self, results) :
                   IF outcome = "TypeError"
                   THEN rpc' = "crashed" /\ UNCHANGED <<changed, self, results_state>>
                   ELSE /\ self' = AfterDiff(self, results)
                        /\ AfterFetch(outcome # "ok", results)
    /\ UNCHANGED <<state_arg, check_mode, desired, cloud_error, remote, existed, props, failure, run,
                   basis, drift>>

\* load_balancers.get raises CloudError because there is no such load balancer
FetchNotFound ==
    /\ rpc = "fetch" /\ remote = NoneObj
    /\ calls' = Append(calls, "load_balancers.get")
    /\ fetched' = "notfound"
    /\ AfterFetch(TRUE, EmptyDict)
    /\ cloud_error' = "load_balancers.get"
    /\ UNCHANGED <<state_arg, check_mode, desired, self, remote, existed, props, failure,
                   run, basis, drift>>

\* load_balancers.get raises CloudError for another reason (credentials, transport)
FetchCloudError ==
    /\ rpc = "fetch"
    /\ calls' = Append(calls, "load_balancers.get")
    /\ fetched' = "error"
    /\ AfterFetch(TRUE, EmptyDict)
    /\ cloud_error' = "load_balancers.get"
    /\ UNCHANGED <<state_arg, check_mode, desired, self, remote, existed, props, failure,
                   run, basis, drift>>

\* the lookups the frontends make while the replacement is built
LookupCalls(fronts) ==
    [i \in 1..Len(fronts) |->
        IF fronts[i].public_ip_name # "" THEN "public_ip_addresses.get" ELSE "subnets.get"]

BuildOk ==
    /\ rpc = "build"
    /\ props' = BuildLoadBalancer(self)
    /\ results_state' = load_balancer_to_dict(props')
    /\ calls' = calls \o LookupCalls(self.frontend_ip_configs)
    /\ rpc' = "submit"
    /\ UNCHANGED <<state_arg, check_mode, desired, cloud_error, self, remote, existed, changed, failure,
                   fetched, run, basis, drift>>

\* get_subnet or get_public_ip_address fails the run on a CloudError
BuildLookupCloudError ==
    /\ rpc = "build"
    /\ \E i \in 1..Len(self.frontend_ip_configs) :
           calls' = calls \o LookupCalls(SubSeq(self.frontend_ip_configs, 1, i))
    /\ failure' = ProviderFailure("lookup")
    /\ rpc' = "failed"
    /\ cloud_error' = "lookup"
    /\ UNCHANGED <<state_arg, check_mode, desired, self, remote, existed, changed,
                   results_state, props, fetched, run, basis, drift>>

\* create_or_update(...).wait() returns: the provider stores what was passed
CreateOrUpdate ==
    /\ rpc = "submit"
    /\ calls' = Append(calls, "load_balancers.create_or_update")
    /\ remote' = props
    /\ rpc' = "done"
    /\ UNCHANGED <<state_arg, check_mode, desired, cloud_error, self, existed, changed, results_state,
                   props, failure, fetched, run, basis, drift>>

CreateOrUpdateCloudError ==
    /\ rpc = "submit"
    /\ calls' = Append(calls, "load_balancers.create_or_update")
    /\ failure' = ProviderFailure("create_or_update")
    /\ rpc' = "failed"
    /\ cloud_error' = "load_balancers.create_or_update"
    /\ UNCHANGED <<state_arg, check_mode, desired, self, remote, existed, changed,
                   results_state, props, fetched, run, basis, drift>>

\* the run ended by a create_or_update that the provider completed
Submitted ==
    /\ rpc = "done" /\ calls # <<>>
    /\ calls[Len(calls)] = "load_balancers.create_or_update"

\* what a new run of the module starts from
NewRun ==
    /\ rpc \in {"done", "failed", "crashed"}
    /\ run < MaxRuns
    /\ run' = run + 1
    /\ check_mode' \in BOOLEAN
    /\ self' = desired
    /\ existed' = (remote' # NoneObj)
    /\ rpc' = "start" /\ changed' = FALSE /\ results_state' = EmptyDict /\ props' = NoneObj
    /\ calls' = <<>> /\ failure' = NoFailure /\ fetched' = "none" /\ cloud_error' = ""
    /\ UNCHANGED <<state_arg, desired>>

\* The playbook is run again with the same request.
NextRun ==
    /\ remote' = remote
    /\ NewRun
    /\ basis' = IF Submitted THEN "insync" ELSE basis
    /\ drift' = IF Submitted THEN "none" ELSE drift

\* The playbook is run again after another actor has changed one field of the
\* load balancer the module had submitted.
NextRunAfterDrift ==
    /\ state_arg = "present"
    /\ Submitted \/ basis = "insync"
    /\ \E d \in Drifts(remote) : remote' = d.lb /\ drift' = d.kind
    /\ NewRun
    /\ basis' = "drifted"

Next ==
    \/ DeleteOk /\ UNCHANGED <<dvars, ivars, cvars>>
    \/ DeleteCloudError /\ UNCHANGED <<dvars, ivars, cvars>>
    \/ GetResourceGroup /\ UNCHANGED <<dvars, ivars, cvars>>
    \/ GetResourceGroupCloudError /\ UNCHANGED <<dvars, ivars, cvars>>
    \/ CheckInputAndSetDefaults /\ UNCHANGED <<dvars, ivars, cvars>>
    \/ FetchFound /\ UNCHANGED <<dvars, ivars, cvars>>
    \/ FetchNotFound /\ UNCHANGED <<dvars, ivars, cvars>>
    \/ FetchCloudError /\ UNCHANGED <<dvars, ivars, cvars>>
    \/ BuildOk /\ UNCHANGED <<dvars, ivars, cvars>>
    \/ BuildLookupCloudError /\ UNCHANGED <<dvars, ivars, cvars>>
    \/ CreateOrUpdate /\ UNCHANGED <<dvars, ivars, cvars>>
    \/ CreateOrUpdateCloudError /\ UNCHANGED <<dvars, ivars, cvars>>
    \/ NextRun /\ UNCHANGED <<dvars, ivars, cvars>>
    \/ NextRunAfterDrift /\ UNCHANGED <<dvars, ivars, cvars>>

Init == InitReconciler /\ DecoderOff /\ InventoryOff /\ ConcurrentOff

Spec == Init /\ [][Next]_vars

(***************************************************************************)
(* Two playbooks run exec_module (state=present, no check mode) on the     *)
(* same load balancer; the provider answers every call. Each call to the   *)
(* provider is a step of its own, so the calls of the two interleave.      *)
(***************************************************************************)
Playbooks == {1, 2}

\* The requests the two playbooks make: those of one or two frontends and
\* backend pools that the input check accepts.
ConcRequests ==
    {args \in Requests :
        /\ CheckInput(args) = NoFailure
        /\ Len(args.frontend_ip_configs) <= 1
        /\ Len(args.frontend_ip_configs) + Len(args.backend_pools) \in {1, 2}
        /\ args.health_probes = <<>> /\ args.load_balancing_rules = <<>>
        /\ args.inbound_nat_rules = <<>>}

\* exec_module's locals at the start of run n of a playbook
RunStart(args, n) ==
    [desired |-> args, self |-> args, pc |-> "start", seen |-> NoneObj, changed |-> FALSE,
     props |-> NoneObj, n |-> n]

InitConcurrent ==
    /\ runs \in {r \in [Playbooks -> {RunStart(args, 1) : args \in ConcRequests}] :
                    r[1].desired # r[2].desired}
    /\ store \in Remotes
    /\ writes = <<>>

\* get_resource_group, then the input check, which sets the default values
ConcCheckInput(r) ==
    /\ runs[r].pc = "start"
    /\ runs' = [runs EXCEPT ![r] =
                   IF CheckInput(@.self) # NoFailure
                   THEN [@ EXCEPT !.pc = "failed"]
                   ELSE [@ EXCEPT !.self = SetDefaults(@, ResourceGroup), !.pc = "fetch"]]
    /\ UNCHANGED <<store, writes>>

\* load_balancers.get answers with the load balancer stored at that moment
\* (CloudError when there is none)
ConcGet(r) ==
    /\ runs[r].pc = "fetch"
    /\ runs' = [runs EXCEPT ![r] = [@ EXCEPT !.seen = store, !.pc = "diff"]]
    /\ UNCHANGED <<store, writes>>

\* the comparison of the request with what the get answered, up to
\* "if not changed or self.check_mode: return"
ConcDiff(r) ==
    /\ runs[r].pc = "diff"
    /\ LET run_r == runs[r]
       IN  IF run_r.seen = NoneObj
           THEN runs' = [runs EXCEPT ![r] = [@ EXCEPT !.changed = TRUE, !.pc = "build"]]
           ELSE IF ToDictRaises(run_r.seen)
           THEN runs' = [runs EXCEPT ![r] = [@ EXCEPT !.pc = "crashed"]]
           ELSE LET results == load_balancer_to_dict(run_r.seen)
                IN  \E outcome \in DiffOutcomes(run_r.self, results) :
                       runs' = [runs EXCEPT ![r] =
                           IF outcome = "TypeError"
                           THEN [@ EXCEPT !.pc = "crashed"]
                           ELSE [@ EXCEPT !.self = AfterDiff(run_r.self, results),
                                          !.changed = (outcome # "ok"),
                                          !.pc = IF outcome # "ok" THEN "build" ELSE "done"]]
    /\ UNCHANGED <<store, writes>>

\* the replacement is built from the request alone
ConcBuild(r) ==
    /\ runs[r].pc = "build"
    /\ runs' = [runs EXCEPT ![r] = [@ EXCEPT !.props = BuildLoadBalancer(runs[r].self),
                                             !.pc = "submit"]]
    /\ UNCHANGED <<store, writes>>

\* load_balancers.create_or_update(resource_group_name, load_balancer_name,
\* parameters): the provider stores the parameters in place of what it had;
\* the call carries no condition on what was stored.
CreateOrUpdateMerging(stored, parameters) ==
    IF stored = NoneObj THEN parameters
    ELSE [parameters EXCEPT !.backend_address_pools =
             @ \o SelectSeq(stored.backend_address_pools,
                            LAMBDA pool : pool.name \notin Names(parameters.backend_address_pools))]

create_or_update(stored, parameters) == parameters

ConcCreateOrUpdate(r) ==
    /\ runs[r].pc = "submit"
    /\ store' = create_or_update(store, runs[r].props)
    /\ writes' = Append(writes, r)
    /\ runs' = [runs EXCEPT ![r] = [@ EXCEPT !.pc = "done"]]

\* the playbook is run again with the same request
ConcNextRun(r) ==
    /\ runs[r].pc \in {"done", "crashed"}
    /\ runs[r].n < MaxRuns
    /\ runs' = [runs EXCEPT ![r] = RunStart(@.desired, @.n + 1)]
    /\ UNCHANGED <<store, writes>>

NextConcurrent ==
    \/ \E r \in Playbooks : ConcCheckInput(r) /\ UNCHANGED <<dvars, ivars, rvars>>
    \/ \E r \in Playbooks : ConcGet(r) /\ UNCHANGED <<dvars, ivars, rvars>>
    \/ \E r \in Playbooks : ConcDiff(r) /\ UNCHANGED <<dvars, ivars, rvars>>
    \/ \E r \in Playbooks : ConcBuild(r) /\ UNCHANGED <<dvars, ivars, rvars>>
    \/ \E r \in Playbooks : ConcCreateOrUpdate(r) /\ UNCHANGED <<dvars, ivars, rvars>>
    \/ \E r \in Playbooks : ConcNextRun(r) /\ UNCHANGED <<dvars, ivars, rvars>>

InitC == InitConcurrent /\ DecoderOff /\ InventoryOff /\ ReconcilerOff

SpecConcurrent == InitC /\ [][NextConcurrent]_vars

(***************************************************************************)
(* Specifications                                                          *)
(***************************************************************************)
NextDecode ==
    \/ DecodeSplit /\ UNCHANGED <<ivars, rvars, cvars>>
    \/ DecodeIter /\ UNCHANGED <<ivars, rvars, cvars>>
    \/ DecodeReturn /\ UNCHANGED <<ivars, rvars, cvars>>

\* The loop is straight-line sequential code: a step that can be taken is taken.
InitD == InitDecode /\ InventoryOff /\ ReconcilerOff /\ ConcurrentOff

SpecDecode == InitD /\ [][NextDecode]_vars /\ WF_vars(NextDecode)

NextInventory ==
    \/ VisitVM /\ UNCHANGED <<dvars, rvars, cvars>>
    \/ VisitVMIndexError /\ UNCHANGED <<dvars, rvars, cvars>>
    \/ VisitVMRemoteError /\ UNCHANGED <<dvars, rvars, cvars>>
    \/ EndOfList /\ UNCHANGED <<dvars, rvars, cvars>>
    \/ PrintInventory /\ UNCHANGED <<dvars, rvars, cvars>>

InitI == InitInventory /\ DecoderOff /\ ReconcilerOff /\ ConcurrentOff

SpecInventory == InitI /\ [][NextInventory]_vars

(***************************************************************************)
(* Claims about the reconciler                                             *)
(***************************************************************************)
\* the current run has issued the call
Issued(call) == \E i \in DOMAIN calls : calls[i] = call

\* C1: a state=present run that starts from the load balancer exactly as the
\* run before submitted it, and finds it, does not crash, reports changed=false
\* and issues no create_or_update; for every kind of frontend.
C1_Idempotence ==
    (state_arg = "present" /\ basis = "insync" /\ fetched = "found")
        => /\ rpc # "crashed"
           /\ ~changed
           /\ ~Issued("load_balancers.create_or_update")

\* C2: a state=present run that finds a load balancer differing from the
\* desired spec in exactly one comparable field reports changed=true.
C2_ChangeDetection ==
    (state_arg = "present" /\ basis = "drifted" /\ fetched = "found")
        => /\ rpc # "crashed"
           /\ changed

ExactlyOne(subs, name) == Cardinality({j \in DOMAIN subs : subs[j].name = name}) = 1

RefersTo(id, type, name) ==
    LET ids == azureid_to_dict(id)
    IN  Str(type) \in DOMAIN ids /\ ids[Str(type)] = Str(name)

SameFront(o, d) ==
    IF d.public_ip_name # ""
    THEN o.public_ip_address # NoneObj
         /\ RefersTo(o.public_ip_address.id, "publicIPAddresses", d.public_ip_name)
    ELSE /\ o.subnet # NoneObj
         /\ RefersTo(o.subnet.id, "subnets", d.subnet_name)
         /\ RefersTo(o.subnet.id, "virtualNetworks", d.vnet_name)
         /\ RefersTo(o.subnet.id, "resourceGroups", d.resource_group)
         /\ IF d.private_ip_address # ""
            THEN o.private_ip_address = d.private_ip_address
                 /\ o.private_ip_allocation_method = "Static"
            ELSE o.private_ip_allocation_method = "Dynamic"

SameProbe(o, d) ==
    /\ o.port = d.port /\ o.protocol = d.protocol /\ o.interval_in_seconds = d.interval
    /\ o.number_of_probes = d.fail_count
    /\ d.protocol = "Http" => o.request_path = d.request_path

SameRule(o, d) ==
    /\ RefersTo(o.frontend_ip_configuration.id, "frontendIPConfigurations", d.frontend_name)
    /\ RefersTo(o.backend_address_pool.id, "backendAddressPools", d.backend_name)
    /\ RefersTo(o.probe.id, "probes", d.probe_name)
    /\ o.protocol = d.protocol /\ o.load_distribution = d.load_distribution
    /\ o.frontend_port = d.frontend_port /\ o.backend_port = d.backend_port
    /\ o.idle_timeout_in_minutes = d.idle_timeout
    /\ o.enable_floating_ip = d.enable_floating_ip

SameNat(o, d) ==
    /\ RefersTo(o.frontend_ip_configuration.id, "frontendIPConfigurations", d.frontend_name)
    /\ o.protocol = d.protocol /\ o.frontend_port = d.frontend_port
    /\ o.backend_port = d.backend_port /\ o.idle_timeout_in_minutes = d.idle_timeout
    /\ o.enable_floating_ip = d.enable_floating_ip

\* every wanted item has exactly one sub-resource of its name, with its
\* fields, and there is no other sub-resource
FaithfulList(subs, want, Same(_, _)) ==
    /\ \A i \in DOMAIN want :
           /\ ExactlyOne(subs, want[i].name)
           /\ \A j \in DOMAIN subs : subs[j].name = want[i].name => Same(subs[j], want[i])
    /\ \A j \in DOMAIN subs : \E i \in DOMAIN want : want[i].name = subs[j].name

FaithfulPools(subs, want) ==
    /\ \A i \in DOMAIN want : ExactlyOne(subs, want[i])
    /\ \A j \in DOMAIN subs : \E i \in DOMAIN want : want[i] = subs[j].name

Faithful(lb, args) ==
    /\ FaithfulList(lb.frontend_ip_configurations, args.frontend_ip_configs, SameFront)
    /\ FaithfulPools(lb.backend_address_pools, args.backend_pools)
    /\ FaithfulList(lb.probes, args.health_probes, SameProbe)
    /\ FaithfulList(lb.load_balancing_rules, args.load_balancing_rules, SameRule)
    /\ FaithfulList(lb.inbound_nat_rules, args.inbound_nat_rules, SameNat)

\* C3: the resource description a state=present run is about to pass to
\* create_or_update holds, for every item of the desired spec, exactly one
\* sub-resource of that name with the desired (defaulted) fields, and no other.
C3_RebuildFidelity == rpc = "submit" => Faithful(props, self)

HasDup(names) == \E i, j \in DOMAIN names : i < j /\ names[i] = names[j]

NamesOf(list) == [i \in DOMAIN list |-> list[i].name]

HasDuplicate(args) ==
    \/ HasDup(NamesOf(args.frontend_ip_configs))
    \/ HasDup(args.backend_pools)
    \/ HasDup(NamesOf(args.health_probes))
    \/ HasDup(NamesOf(args.load_balancing_rules))
    \/ HasDup(NamesOf(args.inbound_nat_rules))

\* C4: a state=present run whose request has the same name twice in one of
\* its five lists fails in validation, and has issued no call to the provider
\* when it fails.
C4_DuplicateRejection ==
    (state_arg = "present" /\ HasDuplicate(desired))
        => /\ rpc \in {"start", "validate", "failed"}
           /\ rpc = "failed" => (failure.list # "" /\ calls = <<>>)

\* the dangling references of a request, each as the option and the list it is in
DanglingRefs(args) ==
    {[field |-> "frontend_name", list |-> "load_balancing_rules"] :
        i \in {i \in DOMAIN args.load_balancing_rules :
                  args.load_balancing_rules[i].frontend_name
                      \notin Names(args.frontend_ip_configs)}}
    \cup {[field |-> "backend_name", list |-> "load_balancing_rules"] :
        i \in {i \in DOMAIN args.load_balancing_rules :
                  args.load_balancing_rules[i].backend_name \notin Elems(args.backend_pools)}}
    \cup {[field |-> "probe_name", list |-> "load_balancing_rules"] :
        i \in {i \in DOMAIN args.load_balancing_rules :
                  args.load_balancing_rules[i].probe_name \notin Names(args.health_probes)}}
    \cup {[field |-> "frontend_name", list |-> "inbound_nat_rules"] :
        i \in {i \in DOMAIN args.inbound_nat_rules :
                  args.inbound_nat_rules[i].frontend_name
                      \notin Names(args.frontend_ip_configs)}}

\* the names of the rules and NAT rules that have a dangling reference
DanglingItems(args) ==
    {args.load_balancing_rules[i].name :
        i \in {i \in DOMAIN args.load_balancing_rules :
                  LET r == args.load_balancing_rules[i]
                  IN  \/ r.frontend_name \notin Names(args.frontend_ip_configs)
                      \/ r.backend_name \notin Elems(args.backend_pools)
                      \/ r.probe_name \notin Names(args.health_probes)}}
    \cup {args.inbound_nat_rules[i].name :
        i \in {i \in DOMAIN args.inbound_nat_rules :
                  args.inbound_nat_rules[i].frontend_name
                      \notin Names(args.frontend_ip_configs)}}

\* the request breaks no rule of the validation other than by its references
NoOtherError(args) ==
    /\ ~HasDuplicate(args)
    /\ \A i \in DOMAIN args.frontend_ip_configs :
           LET f == args.frontend_ip_configs[i]
           IN  f.name # "" /\ (f.public_ip_name # "" \/ (f.subnet_name # "" /\ f.vnet_name # ""))
    /\ \A i \in DOMAIN args.health_probes : args.health_probes[i].name # ""
    /\ \A i \in DOMAIN args.load_balancing_rules : args.load_balancing_rules[i].name # ""
    /\ \A i \in DOMAIN args.inbound_nat_rules :
           LET n == args.inbound_nat_rules[i]
           IN  n.name # "" /\ n.frontend_port # 0 /\ n.backend_port # 0

\* the run has not gone past the validation
NotPastValidation ==
    /\ rpc \in {"start", "validate", "failed"}
    /\ ~Issued("load_balancers.get")
    /\ ~Issued("load_balancers.create_or_update")

\* C5 as stated: a state=present run whose request has a dangling reference
\* fails in validation before the load balancer is fetched or anything is
\* submitted, and the failure report identifies the offending field and the
\* offending rule (item).
C5_DanglingRejection ==
    (state_arg = "present" /\ DanglingRefs(desired) # {})
        => /\ NotPastValidation
           /\ (rpc = "failed" /\ failure.list # "" /\ NoOtherError(desired))
                  => /\ [field |-> failure.field, list |-> failure.list] \in DanglingRefs(desired)
                     /\ failure.item \in DanglingItems(desired)

\* C5 as amended: a state=present run whose request has a dangling reference
\* fails before the load balancer is fetched or anything is submitted; the
\* report of a validation failure names an option and the list it is in, never
\* the item, and when the request has no other error the option and list are
\* those of a dangling reference.
C5_DanglingRejectionAmended ==
    (state_arg = "present" /\ DanglingRefs(desired) # {})
        => /\ NotPastValidation
           /\ (rpc = "failed" /\ failure.list # "")
                  => /\ failure.item = ""
                     /\ NoOtherError(desired)
                            => [field |-> failure.field, list |-> failure.list]
                                   \in DanglingRefs(desired)

C5_Witness ==
    /\ state_arg = "present" /\ rpc = "failed" /\ NoOtherError(desired)
    /\ failure = Failure("probe_name", "load_balancing_rules")
    /\ [field |-> "probe_name", list |-> "load_balancing_rules"] \in DanglingRefs(desired)

\* C6: a state=absent run reports changed=true if and only if the load
\* balancer existed when the run started, and leaves no load balancer behind.
C6_AbsentResult ==
    (state_arg = "absent" /\ rpc = "done")
        => /\ changed <=> existed
           /\ remote = NoneObj

\* C10: in a state=present run, a get that finds no load balancer leads to
\* changed=true, and a get that fails for another reason (credentials,
\* transport) fails the run, with no create_or_update issued after it.
C10_FetchOutcomes ==
    state_arg = "present"
        => /\ fetched = "notfound" => changed
           /\ fetched = "error"
                  => rpc = "failed" /\ ~Issued("load_balancers.create_or_update")

\* C11: whenever a mutating call (create_or_update, delete) raises a provider
\* error, the run ends failed with the provider's error surfaced; it never
\* ends as a normal result with changed=false.
C11_MutatingErrorsFatal ==
    cloud_error \in {"load_balancers.create_or_update", "load_balancers.delete"}
        => /\ rpc = "failed"
           /\ failure \in {ProviderFailure("create_or_update"), ProviderFailure("delete")}

\* the run has set the default values and not ended in validation
Defaulted == rpc \in {"fetch", "build", "submit"} \/ (rpc \in {"done", "crashed"} /\ fetched # "none")

\* C13: when a rule omits backend_port, the value compared and the value
\* submitted in the rebuilt resource is 80 (the documented default), whatever
\* the rule's frontend_port.
C13_BackendPortDefault ==
    (state_arg = "present" /\ Defaulted)
        => \A i \in DOMAIN desired.load_balancing_rules :
               desired.load_balancing_rules[i].backend_port = 0
                   => /\ self.load_balancing_rules[i].backend_port = 80
                      /\ rpc = "submit" => props.load_balancing_rules[i].backend_port = 80

\* the names of the desired sub-resources that the actual state lacks
MissingNames ==
    (Names(self.frontend_ip_configs) \ Names(remote.frontend_ip_configurations))
    \cup (Names(self.health_probes) \ Names(remote.probes))
    \cup (Names(self.load_balancing_rules) \ Names(remote.load_balancing_rules))
    \cup (Names(self.inbound_nat_rules) \ Names(remote.inbound_nat_rules))

\* C14: no structural error raised while the desired state is compared with
\* the fetched one (a desired name the actual state lacks, a missing key, an
\* index error, an actual sub-field that is None such as the subnet of a
\* public-IP frontend) leaves the run: the run goes on with changed=true.
C14_ComparisonErrorsDowngraded ==
    (state_arg = "present" /\ fetched = "found")
        => /\ rpc # "crashed"
           /\ (~Issued("load_balancers.create_or_update") /\ MissingNames # {}) => changed

\* C15: for a non-empty desired backend_pools the comparator reports a backend
\* mismatch if and only if the sorted list of the desired pool names differs
\* from the sorted list of the actual pool names, as whole lists; a mismatch
\* makes the run report changed=true.
C15_BackendPoolComparison ==
    (state_arg = "present" /\ fetched = "found" /\ rpc # "crashed"
     /\ ~Issued("load_balancers.create_or_update") /\ self.backend_pools # <<>>)
        => LET wanted == Sort(self.backend_pools)
               actual == SortedKeys(Names(remote.backend_address_pools))
           IN  /\ wanted # actual => changed
               /\ BackOutcome(self.backend_pools, remote.backend_address_pools) # "ok"
                      <=> wanted # actual

\* the field another actor changed is one the request leaves out
DriftOfOmittedField ==
    \/ drift = "probe_port" /\ desired.health_probes[1].port = 0
    \/ drift = "rule_backend_port" /\ desired.load_balancing_rules[1].backend_port = 0

\* C16: a field the request omits is not compared: an actual state that
\* differs from one the run finds unchanged only in such a field (a probe's
\* port, a rule's backend_port) is found unchanged too.
C16_OmittedNotCompared ==
    (state_arg = "present" /\ basis = "drifted" /\ DriftOfOmittedField
     /\ fetched = "found" /\ rpc # "crashed")
        => ~changed

\* the private-IP policy, for a desired frontend d and the actual frontend a
PrivateIpAgrees(d, a) ==
    \/ /\ d.private_ip_address # ""
       /\ a.private_ip_address = d.private_ip_address
       /\ a.private_ip_allocation_method = "Static"
    \/ /\ d.private_ip_address = ""
       /\ a.private_ip_allocation_method = "Dynamic"

\* C17: for every desired frontend that the actual state has, a combination
\* of desired private_ip_address, actual private_ip_address and actual
\* allocation method other than (given, equal, Static) and (omitted, Dynamic)
\* yields changed=true.
C17_PrivateIpPolicy ==
    (state_arg = "present" /\ fetched = "found" /\ ~Issued("load_balancers.create_or_update"))
        => \A i \in DOMAIN self.frontend_ip_configs :
               LET d == self.frontend_ip_configs[i]
                   actual == list_to_dict(remote.frontend_ip_configurations)
               IN  (d.name \in DOMAIN actual /\ ~PrivateIpAgrees(d, actual[d.name]))
                       => rpc # "crashed" /\ changed

\* the changed flags the comparison of a request with a load balancer may give
ChangedFlags(args, lb) ==
    {outcome # "ok" : outcome \in DiffOutcomes(args, load_balancer_to_dict(lb)) \ {"TypeError"}}

\* the same, with the enable_floating_ip of the first NAT rule the other way
OtherNatFloatingIp(list) == [list EXCEPT ![1].enable_floating_ip = ~@]

\* C18: the changed flag of a run does not depend on the enable_floating_ip
\* of a NAT rule: the request that differs only in that value gets the flag
\* the run computed, and so does the actual state that differs only in it.
C18_NatFloatingIpNotCompared ==
    (state_arg = "present" /\ fetched = "found" /\ rpc # "crashed"
     /\ ~Issued("load_balancers.create_or_update") /\ self.inbound_nat_rules # <<>>)
        => /\ changed \in ChangedFlags(
                  [self EXCEPT !.inbound_nat_rules = OtherNatFloatingIp(@)], remote)
           /\ remote.inbound_nat_rules # <<>>
                  => changed \in ChangedFlags(
                         self, [remote EXCEPT !.inbound_nat_rules = OtherNatFloatingIp(@)])

\* A run has found unchanged a NAT rule whose floating IP is asked for.
C18_Witness ==
    /\ state_arg = "present" /\ fetched = "found" /\ rpc = "done" /\ ~changed
    /\ self.inbound_nat_rules # <<>> /\ remote.inbound_nat_rules # <<>>
    /\ self.inbound_nat_rules[1].enable_floating_ip = TRUE

\* /subscriptions/{sub}/resourceGroups/{rg}/providers/Microsoft.Network/
\* loadBalancers/{lb}/{category}/{name} of the run
TemplatePath(category, name) ==
    <<"/", "subscriptions", "/", Subscription, "/", "resourceGroups", "/", ResourceGroup,
      "/", "providers", "/", "Microsoft.Network", "/", "loadBalancers", "/", LbName,
      "/", category, "/", name>>

\* the reference is the template path of the name, decodes to the name under
\* the category, and the name is one of those present
RoundTrips(id, category, name, present) ==
    /\ id = TemplatePath(category, name)
    /\ Str(category) \in DOMAIN azureid_to_dict(id)
    /\ azureid_to_dict(id)[Str(category)] = Str(name)
    /\ name \in present

\* C19: in the rebuilt load balancer every rule's frontend, backend pool and
\* probe reference and every NAT rule's frontend reference is the template
\* path of the name the request gives, azureid_to_dict decodes it to that
\* name under the category key, and a sub-resource of that name is in the
\* same rebuilt load balancer.
C19_ReferenceRoundTrip ==
    rpc = "submit" =>
        /\ Len(props.load_balancing_rules) = Len(self.load_balancing_rules)
        /\ Len(props.inbound_nat_rules) = Len(self.inbound_nat_rules)
        /\ \A i \in DOMAIN props.load_balancing_rules :
               LET rule == props.load_balancing_rules[i]
                   asked == self.load_balancing_rules[i]
               IN  /\ RoundTrips(rule.frontend_ip_configuration.id, "frontendIPConfigurations",
                                 asked.frontend_name, Names(props.frontend_ip_configurations))
                   /\ RoundTrips(rule.backend_address_pool.id, "backendAddressPools",
                                 asked.backend_name, Names(props.backend_address_pools))
                   /\ RoundTrips(rule.probe.id, "probes",
                                 asked.probe_name, Names(props.probes))
        /\ \A i \in DOMAIN props.inbound_nat_rules :
               RoundTrips(props.inbound_nat_rules[i].frontend_ip_configuration.id,
                          "frontendIPConfigurations", self.inbound_nat_rules[i].frontend_name,
                          Names(props.frontend_ip_configurations))

\* A load balancer with a rule and a NAT rule has been rebuilt.
C19_Witness ==
    /\ rpc = "submit"
    /\ props.load_balancing_rules # <<>>
    /\ props.inbound_nat_rules # <<>>

\* the places of a call in the calls of the run
Places(call) == {i \in DOMAIN calls : calls[i] = call}

\* the keys the comparison decodes from the ids of an item are not fields of it
KeepsFields(item, ids) ==
    \A id \in ids : \A key \in DOMAIN azureid_to_dict(id) : key[1] \notin DOMAIN item

\* the comparison adds decoded keys to the items of the fetched state
\* (results_state leaves them out): none of them takes the place of a field
FetchedFieldsKept ==
    LET results == load_balancer_to_dict(remote)
    IN  /\ \A i \in DOMAIN results.frontend_ip_configurations :
               LET rf == results.frontend_ip_configurations[i]
               IN  rf.subnet # NoneObj => KeepsFields(rf, {rf.subnet.id})
        /\ \A i \in DOMAIN results.load_balancing_rules :
               LET rr == results.load_balancing_rules[i]
               IN  KeepsFields(rr, {rr.frontend_ip_configuration_id, rr.probe_id,
                                    rr.backend_address_pool_id})
        /\ \A i \in DOMAIN results.inbound_nat_rules :
               LET rn == results.inbound_nat_rules[i]
               IN  KeepsFields(rn, {rn.frontend_ip_configuration_id})

Rebuilt(args) ==
    LET with_defaults == SetDefaults(args, ResourceGroup)
    IN  {BuildLoadBalancer(with_defaults),
         BuildLoadBalancer([with_defaults EXCEPT !.backend_pools = Sort(@)])}

\* the load balancer stored does not pass the comparison with the request of r
Unsatisfied(r) ==
    \/ store = NoneObj
    \/ ToDictRaises(store)
    \/ "ok" \notin DiffOutcomes(runs[r].self, load_balancer_to_dict(store))

\* C21: with two playbooks interleaving on one load balancer, the load
\* balancer stored after a create_or_update is what the playbook whose call
\* was applied last rebuilt from its own request, with nothing of the other's;
\* no run is refused or fails because of the other, and the changed flag of a
\* run is that of comparing its request with what its own get answered,
\* whatever has been stored since.
C21_LastWriterWins ==
    /\ writes # <<>> => store \in Rebuilt(runs[writes[Len(writes)]].desired)
    /\ \A r \in Playbooks :
           /\ runs[r].pc # "failed"
           /\ runs[r].pc \in {"build", "submit", "done"} =>
                  IF runs[r].seen = NoneObj THEN runs[r].changed
                  ELSE runs[r].changed \in ChangedFlags(runs[r].self, runs[r].seen)

\* Both playbooks have had a create_or_update applied, and a run has returned
\* changed=false although the load balancer stored when it returns does not
\* pass the comparison with its request.
C21_Witness ==
    /\ {writes[i] : i \in DOMAIN writes} = Playbooks
    /\ \E r \in Playbooks :
           /\ runs[r].pc = "done" /\ ~runs[r].changed
           /\ runs[r].seen # store
           /\ writes[Len(writes)] # r
           /\ Unsatisfied(r)

\* enable_floating_ip supplied as true: the boolean, or one of the four texts
SuppliedTrue(efi) == efi \in {"bool:True", "str:True", "str:true", "str:Yes", "str:yes"}

\* C23: in the rebuilt load balancer a rule or NAT rule has enable_floating_ip
\* = true if the request supplies it as true (the boolean or the strings
\* 'True', 'true', 'Yes', 'yes') and false if it omits it or supplies false.
C23_FloatingIpSubmitted ==
    rpc = "submit" =>
        /\ \A i \in DOMAIN desired.load_balancing_rules :
               props.load_balancing_rules[i].enable_floating_ip
                   = SuppliedTrue(desired.load_balancing_rules[i].enable_floating_ip)
        /\ \A i \in DOMAIN desired.inbound_nat_rules :
               props.inbound_nat_rules[i].enable_floating_ip
                   = SuppliedTrue(desired.inbound_nat_rules[i].enable_floating_ip)

\* C24: a run in check mode, for state=present and state=absent alike, issues
\* neither create_or_update nor delete, and leaves the load balancer as it
\* was when the run started.
C24_CheckModeReadOnly ==
    check_mode =>
        /\ ~Issued("load_balancers.create_or_update")
        /\ ~Issued("load_balancers.delete")
        /\ existed = (remote # NoneObj)

\* the frontends, probes, rules and NAT rules of the load balancer whose name
\* the request does not have
ExtraNames(args, lb) ==
    (Names(lb.frontend_ip_configurations) \ Names(args.frontend_ip_configs))
    \cup (Names(lb.probes) \ Names(args.health_probes))
    \cup (Names(lb.load_balancing_rules) \ Names(args.load_balancing_rules))
    \cup (Names(lb.inbound_nat_rules) \ Names(args.inbound_nat_rules))

\* C25: when the load balancer found has a frontend, probe, rule or NAT rule
\* that the request does not name, and everything the request names passes the
\* comparison, the run reports changed=true (and goes on to submit a
\* replacement, which has no sub-resource the request does not name).
C25_RemovedSubResources ==
    /\ (state_arg = "present" /\ fetched = "found" /\ rpc # "crashed"
        /\ ~Issued("load_balancers.create_or_update")
        /\ ExtraNames(self, remote) # {}
        /\ "ok" \in DiffOutcomes(self, load_balancer_to_dict(remote)))
           => changed /\ (~check_mode => rpc \in {"build", "submit"})
    /\ rpc = "submit" => ExtraNames(self, props) = {}

(***************************************************************************)
(* Claims about the path decoder                                           *)
(***************************************************************************)
\* A resource path: (type, name) pairs of non-empty segments, the types distinct.
WellFormedPath(ss) ==
    /\ \A i \in 1..Len(ss) : ss[i] # <<>>
    /\ \A i, j \in 1..(Len(ss) \div 2) : i # j => ss[2 * i - 1] # ss[2 * j - 1]

ExpectedDict(ss) ==
    LET k == Len(ss) \div 2
    IN  [t \in {ss[2 * i - 1] : i \in 1..k} |->
            ss[2 * (CHOOSE i \in 1..k : ss[2 * i - 1] = t)]]

\* C7: for every resource path of k (type, name) pairs with distinct types,
\* whatever slashes lead or trail it, azureid_to_dict (and _parse_ref_id) return
\* exactly type_i -> name_i; an unpaired last segment is dropped, the empty path
\* gives the empty mapping, and the decoding loop terminates on every input.
C7_PathDecoding ==
    /\ [](dpc = "done" /\ WellFormedPath(segs) =>
            /\ result = ExpectedDict(segs)
            /\ azureid_to_dict(path) = ExpectedDict(segs)
            /\ _parse_ref_id(path) = ExpectedDict(segs))
    /\ <>(dpc = "done")

\* Two pairs between a leading and a trailing slash have been decoded.
C7_Witness ==
    /\ dpc = "done" /\ WellFormedPath(segs) /\ Len(segs) = 4
    /\ Len(path) > 2 /\ path[1] = "/" /\ path[Len(path)] = "/"
    /\ Cardinality(DOMAIN result) = 2

(***************************************************************************)
(* Claims about the inventory                                              *)
(***************************************************************************)
IsRunning(vm) == Len(vm.statuses) >= 2 /\ Contains(vm.statuses[2], "running")

\* The address the VM at position i is to be listed under.
ChosenAddress(i) == HostName(public, HostVars(i, vmlist[i]))

RECURSIVE RunningHosts(_)
RunningHosts(i) ==
    IF i = 0 THEN <<>>
    ELSE IF IsRunning(vmlist[i]) THEN Append(RunningHosts(i - 1), ChosenAddress(i))
    ELSE RunningHosts(i - 1)

\* C8: when no remote call fails, the printed azure_running lists exactly the
\* chosen address of every VM whose second status text contains "running", and
\* hostvars has the entries of those VMs and no other, wherever the VMs that
\* are not running stand in the list.
C8_RunningOnly ==
    (ipc = "exit" /\ raised # "RemoteError") =>
        /\ printed.azure_running = RunningHosts(Len(vmlist))
        /\ DOMAIN printed.hostvars =
               {ChosenAddress(i) : i \in {j \in 1..Len(vmlist) : IsRunning(vmlist[j])}}

\* C9: no element of the printed azure_running and no key of the printed
\* hostvars is the absent value.
C9_NoAbsentHost ==
    ipc = "exit" =>
        /\ \A i \in 1..Len(printed.azure_running) : printed.azure_running[i] # None
        /\ None \notin DOMAIN printed.hostvars

\* the running VMs among the first n of the list
RunningBefore(n) == {j \in 1..n : IsRunning(vmlist[j])}

Primaries(nics) == {i \in 1..Len(nics) : nics[i].primary}

\* the addresses read from the first interface flagged primary alone
FromFirstPrimary(name, vm) ==
    LET base == [name |-> name, public_ip |-> None, private_ip |-> None]
    IN  IF Primaries(vm.nics) = {} THEN base
        ELSE LET first == CHOOSE i \in Primaries(vm.nics) : \A j \in Primaries(vm.nics) : i <= j
             IN  IpConfigLoop(vm.nics[first].ip_configurations, 1, base)

\* C22: the private_ip and public_ip recorded for a running VM are those of
\* its first interface flagged primary; no other interface, flagged primary
\* or not, changes them.
C22_PrimaryInterface ==
    \A key \in DOMAIN inventory.hostvars :
        LET host_vars == inventory.hostvars[key]
            wanted == FromFirstPrimary(host_vars.name, vmlist[host_vars.name])
        IN  /\ host_vars.private_ip = wanted.private_ip
            /\ host_vars.public_ip = wanted.public_ip

\* the document is consistent for the first n VMs of the list
Consistent(doc, n) ==
    /\ {doc.azure_running[i] : i \in DOMAIN doc.azure_running} = DOMAIN doc.hostvars
    /\ \A i, j \in DOMAIN doc.azure_running : i # j => doc.azure_running[i] # doc.azure_running[j]
    /\ \A j \in RunningBefore(n) :
           /\ ChosenAddress(j) \in DOMAIN doc.hostvars
           /\ doc.hostvars[ChosenAddress(j)] = HostVars(j, vmlist[j])

\* C26: at every point of the traversal, and in the printed document, the
\* elements of azure_running are the keys of hostvars, no identifier is
\* listed twice, and every running VM added has its own record under its
\* identifier.
C26_InventoryConsistency ==
    /\ Consistent(inventory, pos)
    /\ printed # NoDoc => Consistent(printed, pos)

====
